---- MODULE Spec2Model ----
(***************************************************************************)
(* Model of app/models.py: the SQLModel tables persons,                    *)
(* marriage_preferences, family_backgrounds and marriage_letters, the      *)
(* relationships between them, and the non-persistent validation schemas.  *)
(*                                                                         *)
(* Three specifications share the module:                                  *)
(*   Spec      the four tables under inserts, updates and deletes;         *)
(*   SpecForm  validation of the non-persistent schemas and the mapping    *)
(*             of a validated Create value onto a table row and back;      *)
(*   SpecObj   construction of table instances from their field defaults   *)
(*             and in-place mutation of their container fields.            *)
(***************************************************************************)
EXTENDS Integers, Sequences, FiniteSets, TLC

VARIABLES
    persons,               \* ids of the rows of table "persons"
    family_backgrounds,    \* ids of the rows of table "family_backgrounds"
    marriage_preferences,  \* ids of the rows of table "marriage_preferences"
    marriage_letters,      \* id -> row of table "marriage_letters"
    outcome,               \* the last database operation and how it ended
    request,               \* the last value handed to a validation schema
    response,              \* what validation made of it
    heap,                  \* address -> contents of a dict / list object
    objects                \* the table instances constructed so far

vars == <<persons, family_backgrounds, marriage_preferences, marriage_letters,
          outcome, request, response, heap, objects>>

dbVars == <<persons, family_backgrounds, marriage_preferences, marriage_letters,
            outcome>>
formVars == <<request, response>>
objVars == <<heap, objects>>

-----------------------------------------------------------------------------
(* Bounds of the model.                                                    *)

MaxPersons == 2
MaxFamilies == 1
MaxPreferences == 1
MaxLetters == 2
MaxObjects == 3

-----------------------------------------------------------------------------
(* Enumerations.                                                           *)

MaritalStatus == {"single", "divorced", "widowed"}

EducationLevel == {"primary", "secondary", "diploma", "bachelor", "master",
                   "doctorate", "professional"}

Religion == {"islam", "christianity", "hinduism", "buddhism", "judaism", "other"}

LetterType == {"N1", "N2", "N3", "N4", "N5"}

EnumMembers(type) ==
    CASE type = "MaritalStatus" -> MaritalStatus
      [] type = "EducationLevel" -> EducationLevel
      [] type = "Religion" -> Religion
      [] type = "LetterType" -> LetterType
      [] OTHER -> {}

EnumTypes == {"MaritalStatus", "EducationLevel", "Religion", "LetterType"}

-----------------------------------------------------------------------------
(* Values.  Every value is a record of one shape: k is its Python type, n  *)
(* a number (the length of a str, the value of an int), s the text of a    *)
(* short str, o the fields of a nested object or the elements of a         *)
(* container.                                                              *)

Empty == [x \in {} |-> 0]

Val(k, n, s, o) == [k |-> k, n |-> n, s |-> s, o |-> o]

None == Val("NoneType", 0, "", Empty)
Undefined == Val("PydanticUndefined", 0, "", Empty)
UtcNow == Val("default_factory", 0, "datetime.utcnow", Empty)
Lit(s) == Val("str", Len(s), s, Empty)
Blank(n) == Val("str", n, "", Empty)
IntVal(n) == Val("int", n, "", Empty)
Bool(b) == Val("bool", IF b THEN 1 ELSE 0, "", Empty)
ListOf(elems) == Val("list", Len(elems), "", elems)
DictOf(keys) == Val("dict", Cardinality(keys), "", [key \in keys |-> 0])
Obj(fields) == Val("object", 0, "", fields)

Unlimited == -1

-----------------------------------------------------------------------------
(* Field declarations: what Field(...) and the annotation say of a field.  *)

FieldInfo(type, optional, default, max_length) ==
    [type |-> type, optional |-> optional, required |-> default = Undefined,
     default |-> default, max_length |-> max_length,
     primary_key |-> FALSE, foreign_key |-> "", unique |-> FALSE]

Required(type) == FieldInfo(type, FALSE, Undefined, Unlimited)
RequiredStr(n) == FieldInfo("str", FALSE, Undefined, n)
DefaultStr(d, n) == FieldInfo("str", FALSE, d, n)
Defaulted(type, d) == FieldInfo(type, FALSE, d, Unlimited)
OptionalOf(type) == FieldInfo(type, TRUE, None, Unlimited)
PrimaryKey == [OptionalOf("int") EXCEPT !.primary_key = TRUE]
ForeignKey(info, table) == [info EXCEPT !.foreign_key = table]
UniqueStr(n) == [RequiredStr(n) EXCEPT !.unique = TRUE]

-----------------------------------------------------------------------------
(* Persistent models: the columns of each table.                           *)

PersonColumns ==
    [id |-> PrimaryKey,
     full_name |-> RequiredStr(255),
     date_of_birth |-> Required("date"),
     place_of_birth |-> RequiredStr(255),
     nationality |-> RequiredStr(100),
     religion |-> Required("Religion"),
     occupation |-> RequiredStr(255),
     education_level |-> Required("EducationLevel"),
     institution_name |-> DefaultStr(Lit(""), 255),
     graduation_year |-> OptionalOf("int"),
     monthly_income |-> OptionalOf("Decimal"),
     address |-> RequiredStr(500),
     phone_number |-> RequiredStr(20),
     email |-> DefaultStr(Lit(""), 255),
     height_cm |-> OptionalOf("int"),
     weight_kg |-> OptionalOf("Decimal"),
     complexion |-> DefaultStr(Lit(""), 100),
     physical_disabilities |-> DefaultStr(Lit(""), 500),
     health_conditions |-> DefaultStr(Lit(""), 500),
     hobbies |-> DefaultStr(Lit(""), 500),
     additional_notes |-> DefaultStr(Lit(""), 1000),
     created_at |-> Defaulted("datetime", UtcNow)]

MarriagePreferencesColumns ==
    [id |-> PrimaryKey,
     preferred_age_min |-> OptionalOf("int"),
     preferred_age_max |-> OptionalOf("int"),
     preferred_education |-> OptionalOf("EducationLevel"),
     preferred_occupation |-> DefaultStr(Lit(""), 255),
     preferred_religion |-> OptionalOf("Religion"),
     preferred_nationality |-> DefaultStr(Lit(""), 100),
     preferred_location |-> DefaultStr(Lit(""), 255),
     preferred_income_min |-> OptionalOf("Decimal"),
     preferred_height_min |-> OptionalOf("int"),
     preferred_height_max |-> OptionalOf("int"),
     marital_status_acceptable |-> Defaulted("List[str]", ListOf(<<>>)),
     additional_requirements |-> DefaultStr(Lit(""), 1000),
     created_at |-> Defaulted("datetime", UtcNow)]

FamilyBackgroundColumns ==
    [id |-> PrimaryKey,
     family_origin |-> RequiredStr(255),
     ancestral_home |-> RequiredStr(255),
     family_traditions |-> DefaultStr(Lit(""), 1000),
     social_status |-> DefaultStr(Lit(""), 255),
     family_values |-> DefaultStr(Lit(""), 1000),
     number_of_siblings |-> Defaulted("int", IntVal(0)),
     siblings_details |-> DefaultStr(Lit(""), 1000),
     family_income_range |-> DefaultStr(Lit(""), 100),
     property_details |-> DefaultStr(Lit(""), 500),
     family_reputation |-> DefaultStr(Lit(""), 500),
     created_at |-> Defaulted("datetime", UtcNow)]

MarriageLetterColumns ==
    [id |-> PrimaryKey,
     letter_type |-> Required("LetterType"),
     reference_number |-> UniqueStr(50),
     husband_id |-> ForeignKey(Required("int"), "persons"),
     husband_father_id |-> ForeignKey(OptionalOf("int"), "persons"),
     husband_mother_id |-> ForeignKey(OptionalOf("int"), "persons"),
     husband_marital_status |-> Defaulted("MaritalStatus", Lit("single")),
     husband_family_id |-> ForeignKey(OptionalOf("int"), "family_backgrounds"),
     husband_preferences_id |-> ForeignKey(OptionalOf("int"), "marriage_preferences"),
     wife_id |-> ForeignKey(Required("int"), "persons"),
     wife_father_id |-> ForeignKey(OptionalOf("int"), "persons"),
     wife_mother_id |-> ForeignKey(OptionalOf("int"), "persons"),
     wife_marital_status |-> Defaulted("MaritalStatus", Lit("single")),
     wife_family_id |-> ForeignKey(OptionalOf("int"), "family_backgrounds"),
     wife_preferences_id |-> ForeignKey(OptionalOf("int"), "marriage_preferences"),
     purpose |-> RequiredStr(500),
     special_requests |-> DefaultStr(Lit(""), 1000),
     contact_person |-> RequiredStr(255),
     contact_phone |-> RequiredStr(20),
     contact_email |-> DefaultStr(Lit(""), 255),
     is_printed |-> Defaulted("bool", Bool(FALSE)),
     print_date |-> OptionalOf("datetime"),
     created_at |-> Defaulted("datetime", UtcNow),
     updated_at |-> Defaulted("datetime", UtcNow),
     custom_fields |-> Defaulted("Dict[str, Any]", DictOf({}))]

-----------------------------------------------------------------------------
(* Non-persistent schemas: the fields of each.                             *)

\* PersonCreate declared without the email field.
PersonCreateFields_NoEmail ==
    [f \in DOMAIN PersonColumns \ {"id", "created_at", "email"} |->
        PersonColumns[f]]

PersonCreateFields ==
    [full_name |-> RequiredStr(255),
     date_of_birth |-> Required("date"),
     place_of_birth |-> RequiredStr(255),
     nationality |-> RequiredStr(100),
     religion |-> Required("Religion"),
     occupation |-> RequiredStr(255),
     education_level |-> Required("EducationLevel"),
     institution_name |-> DefaultStr(Lit(""), 255),
     graduation_year |-> OptionalOf("int"),
     monthly_income |-> OptionalOf("Decimal"),
     address |-> RequiredStr(500),
     phone_number |-> RequiredStr(20),
     email |-> DefaultStr(Lit(""), 255),
     height_cm |-> OptionalOf("int"),
     weight_kg |-> OptionalOf("Decimal"),
     complexion |-> DefaultStr(Lit(""), 100),
     physical_disabilities |-> DefaultStr(Lit(""), 500),
     health_conditions |-> DefaultStr(Lit(""), 500),
     hobbies |-> DefaultStr(Lit(""), 500),
     additional_notes |-> DefaultStr(Lit(""), 1000)]

MarriagePreferencesCreateFields ==
    [preferred_age_min |-> OptionalOf("int"),
     preferred_age_max |-> OptionalOf("int"),
     preferred_education |-> OptionalOf("EducationLevel"),
     preferred_occupation |-> DefaultStr(Lit(""), 255),
     preferred_religion |-> OptionalOf("Religion"),
     preferred_nationality |-> DefaultStr(Lit(""), 100),
     preferred_location |-> DefaultStr(Lit(""), 255),
     preferred_income_min |-> OptionalOf("Decimal"),
     preferred_height_min |-> OptionalOf("int"),
     preferred_height_max |-> OptionalOf("int"),
     marital_status_acceptable |-> Defaulted("List[str]", ListOf(<<>>)),
     additional_requirements |-> DefaultStr(Lit(""), 1000)]

FamilyBackgroundCreateFields ==
    [family_origin |-> RequiredStr(255),
     ancestral_home |-> RequiredStr(255),
     family_traditions |-> DefaultStr(Lit(""), 1000),
     social_status |-> DefaultStr(Lit(""), 255),
     family_values |-> DefaultStr(Lit(""), 1000),
     number_of_siblings |-> Defaulted("int", IntVal(0)),
     siblings_details |-> DefaultStr(Lit(""), 1000),
     family_income_range |-> DefaultStr(Lit(""), 100),
     property_details |-> DefaultStr(Lit(""), 500),
     family_reputation |-> DefaultStr(Lit(""), 500)]

\* MarriageLetterCreate, section by section.
LetterHusbandFields ==
    [husband_data |-> Required("PersonCreate"),
     husband_father_data |-> OptionalOf("PersonCreate"),
     husband_mother_data |-> OptionalOf("PersonCreate"),
     husband_marital_status |-> Defaulted("MaritalStatus", Lit("single")),
     husband_family_data |-> OptionalOf("FamilyBackgroundCreate"),
     husband_preferences_data |-> OptionalOf("MarriagePreferencesCreate")]

LetterWifeFields ==
    [wife_data |-> Required("PersonCreate"),
     wife_father_data |-> OptionalOf("PersonCreate"),
     wife_mother_data |-> OptionalOf("PersonCreate"),
     wife_marital_status |-> Defaulted("MaritalStatus", Lit("single")),
     wife_family_data |-> OptionalOf("FamilyBackgroundCreate"),
     wife_preferences_data |-> OptionalOf("MarriagePreferencesCreate")]

LetterMetadataFields ==
    [purpose |-> RequiredStr(500),
     special_requests |-> DefaultStr(Lit(""), 1000),
     contact_person |-> RequiredStr(255),
     contact_phone |-> RequiredStr(20),
     contact_email |-> DefaultStr(Lit(""), 255)]

\* MarriageLetterCreate with contact_phone given a default and a longer
\* limit than the column.
MarriageLetterCreateFields_LoosePhone ==
    [letter_type |-> Required("LetterType")]
        @@ LetterHusbandFields @@ LetterWifeFields
        @@ [LetterMetadataFields EXCEPT !.contact_phone = DefaultStr(Lit(""), 50)]
        @@ [custom_fields |-> Defaulted("Dict[str, Any]", DictOf({}))]

MarriageLetterCreateFields ==
    [letter_type |-> Required("LetterType")]
        @@ LetterHusbandFields @@ LetterWifeFields @@ LetterMetadataFields
        @@ [custom_fields |-> Defaulted("Dict[str, Any]", DictOf({}))]

LetterPrintRequestFields ==
    [letter_id |-> Required("int"),
     print_format |-> DefaultStr(Lit("pdf"), 10),
     include_photos |-> Defaulted("bool", Bool(FALSE)),
     letterhead |-> DefaultStr(Lit(""), 255),
     additional_notes |-> DefaultStr(Lit(""), 500)]

Schemas ==
    {"PersonCreate", "MarriagePreferencesCreate", "FamilyBackgroundCreate",
     "MarriageLetterCreate", "LetterPrintRequest"}

FieldsOf(schema) ==
    CASE schema = "PersonCreate" -> PersonCreateFields
      [] schema = "MarriagePreferencesCreate" -> MarriagePreferencesCreateFields
      [] schema = "FamilyBackgroundCreate" -> FamilyBackgroundCreateFields
      [] schema = "MarriageLetterCreate" -> MarriageLetterCreateFields
      [] schema = "LetterPrintRequest" -> LetterPrintRequestFields

-----------------------------------------------------------------------------
(* Validation of a non-persistent schema.  The data handed in maps field   *)
(* names to values; a field left out is not in its domain.                 *)

\* A str field that does not check max_length.
TypeOK_NoLimit(info, v, nested) ==
    CASE info.type = "str" -> v.k = "str"
      [] info.type \in EnumTypes -> v.k = "str" /\ v.s \in EnumMembers(info.type)
      [] info.type = "List[str]" ->
            v.k = "list" /\ \A i \in DOMAIN v.o : v.o[i].k = "str"
      [] info.type = "Dict[str, Any]" -> v.k = "dict"
      [] info.type \in Schemas -> v.k = "object" /\ nested
      [] OTHER -> v.k = info.type

\* An enum field that takes any str.
TypeOK_AnyStr(info, v, nested) ==
    CASE info.type = "str" ->
            v.k = "str"
                /\ (info.max_length = Unlimited \/ v.n <= info.max_length)
      [] info.type \in EnumTypes -> v.k = "str"
      [] info.type = "List[str]" ->
            v.k = "list" /\ \A i \in DOMAIN v.o : v.o[i].k = "str"
      [] info.type = "Dict[str, Any]" -> v.k = "dict"
      [] info.type \in Schemas -> v.k = "object" /\ nested
      [] OTHER -> v.k = info.type

\* Whether value v, not None, is of the field's type; nested says whether
\* the fields of a nested object are valid for its schema.
TypeOK(info, v, nested) ==
    CASE info.type = "str" ->
            v.k = "str"
                /\ (info.max_length = Unlimited \/ v.n <= info.max_length)
      [] info.type \in EnumTypes -> v.k = "str" /\ v.s \in EnumMembers(info.type)
      [] info.type = "List[str]" ->
            v.k = "list" /\ \A i \in DOMAIN v.o : v.o[i].k = "str"
      [] info.type = "Dict[str, Any]" -> v.k = "dict"
      [] info.type \in Schemas -> v.k = "object" /\ nested
      [] OTHER -> v.k = info.type

\* A schema that asks for no field.
Missing_Nothing(fields, data) == {}

\* The required fields the data leaves out.
Missing(fields, data) ==
    {f \in DOMAIN fields : fields[f].required /\ f \notin DOMAIN data}

RECURSIVE Valid(_, _)
Valid(schema, data) ==
    LET fields == FieldsOf(schema)
    IN  /\ Missing(fields, data) = {}
        /\ \A f \in DOMAIN data \cap DOMAIN fields :
               IF data[f] = None
               THEN fields[f].optional
               ELSE TypeOK(fields[f], data[f],
                           IF fields[f].type \in Schemas /\ data[f].k = "object"
                           THEN Valid(fields[f].type, data[f].o)
                           ELSE FALSE)

\* The object validation produces: the values given, and the declared
\* default of every field left out.
RECURSIVE Build(_, _)
Build(schema, data) ==
    LET fields == FieldsOf(schema)
    IN  [f \in DOMAIN fields |->
            IF f \notin DOMAIN data THEN fields[f].default
            ELSE IF fields[f].type \in Schemas /\ data[f].k = "object"
                 THEN Obj(Build(fields[f].type, data[f].o))
                 ELSE data[f]]

-----------------------------------------------------------------------------
(* Relationships.  Each names the attribute on the other side              *)
(* (back_populates) and the column of marriage_letters that carries it     *)
(* (foreign_keys).                                                         *)

Rel(target, back_populates, foreign_keys) ==
    [target |-> target, back_populates |-> back_populates,
     foreign_keys |-> foreign_keys]

\* as_husband_father_letters declared with the foreign key of
\* as_husband_letters.
PersonRelationships_SameKey ==
    [as_husband_letters |-> Rel("marriage_letters", "husband", "husband_id"),
     as_wife_letters |-> Rel("marriage_letters", "wife", "wife_id"),
     as_husband_father_letters |->
         Rel("marriage_letters", "husband_father", "husband_id"),
     as_husband_mother_letters |->
         Rel("marriage_letters", "husband_mother", "husband_mother_id"),
     as_wife_father_letters |->
         Rel("marriage_letters", "wife_father", "wife_father_id"),
     as_wife_mother_letters |->
         Rel("marriage_letters", "wife_mother", "wife_mother_id")]

PersonRelationships ==
    [as_husband_letters |-> Rel("marriage_letters", "husband", "husband_id"),
     as_wife_letters |-> Rel("marriage_letters", "wife", "wife_id"),
     as_husband_father_letters |->
         Rel("marriage_letters", "husband_father", "husband_father_id"),
     as_husband_mother_letters |->
         Rel("marriage_letters", "husband_mother", "husband_mother_id"),
     as_wife_father_letters |->
         Rel("marriage_letters", "wife_father", "wife_father_id"),
     as_wife_mother_letters |->
         Rel("marriage_letters", "wife_mother", "wife_mother_id")]

MarriagePreferencesRelationships ==
    [husband_preferences |->
         Rel("marriage_letters", "husband_preferences_obj", "husband_preferences_id"),
     wife_preferences |->
         Rel("marriage_letters", "wife_preferences_obj", "wife_preferences_id")]

FamilyBackgroundRelationships ==
    [husband_families |->
         Rel("marriage_letters", "husband_family", "husband_family_id"),
     wife_families |->
         Rel("marriage_letters", "wife_family", "wife_family_id")]

MarriageLetterRelationships ==
    [husband |-> Rel("persons", "as_husband_letters", "husband_id"),
     wife |-> Rel("persons", "as_wife_letters", "wife_id"),
     husband_father |->
         Rel("persons", "as_husband_father_letters", "husband_father_id"),
     husband_mother |->
         Rel("persons", "as_husband_mother_letters", "husband_mother_id"),
     wife_father |-> Rel("persons", "as_wife_father_letters", "wife_father_id"),
     wife_mother |-> Rel("persons", "as_wife_mother_letters", "wife_mother_id"),
     husband_family |->
         Rel("family_backgrounds", "husband_families", "husband_family_id"),
     wife_family |->
         Rel("family_backgrounds", "wife_families", "wife_family_id"),
     husband_preferences_obj |->
         Rel("marriage_preferences", "husband_preferences", "husband_preferences_id"),
     wife_preferences_obj |->
         Rel("marriage_preferences", "wife_preferences", "wife_preferences_id")]

-----------------------------------------------------------------------------
(* The database.  A row of persons, family_backgrounds and                 *)
(* marriage_preferences is modelled by its id.  A row of marriage_letters  *)
(* keeps the columns that carry a constraint between rows: the ten         *)
(* foreign keys and reference_number (the n-th distinct reference string   *)
(* is modelled by the number n).                                           *)

NULL == 0

PersonIds == 1..MaxPersons
FamilyIds == 1..MaxFamilies
PreferenceIds == 1..MaxPreferences
LetterIds == 1..MaxLetters
ReferenceNumbers == {1, 2}

Table(name) ==
    CASE name = "persons" -> persons
      [] name = "family_backgrounds" -> family_backgrounds
      [] name = "marriage_preferences" -> marriage_preferences
      [] name = "marriage_letters" -> DOMAIN marriage_letters

IdsOf(name) ==
    CASE name = "persons" -> PersonIds
      [] name = "family_backgrounds" -> FamilyIds
      [] name = "marriage_preferences" -> PreferenceIds
      [] name = "marriage_letters" -> LetterIds

RelationshipsOf(name) ==
    CASE name = "persons" -> PersonRelationships
      [] name = "family_backgrounds" -> FamilyBackgroundRelationships
      [] name = "marriage_preferences" -> MarriagePreferencesRelationships
      [] name = "marriage_letters" -> MarriageLetterRelationships

ParentTables == {"persons", "family_backgrounds", "marriage_preferences"}

ForeignKeyColumns ==
    {c \in DOMAIN MarriageLetterColumns : MarriageLetterColumns[c].foreign_key # ""}

UniqueColumns ==
    {c \in DOMAIN MarriageLetterColumns : MarriageLetterColumns[c].unique}

KeyColumns == ForeignKeyColumns \cup UniqueColumns

Nullable(c) == MarriageLetterColumns[c].optional

\* NOT NULL: a column whose annotation is not Optional holds a value.
NotNullOK(row) ==
    \A c \in DOMAIN row : ~Nullable(c) => row[c] # NULL

\* A database that does not enforce the declared foreign keys.
ForeignKeyOK_Unenforced(row) == TRUE

\* FOREIGN KEY: a non-null reference names a row of the referenced table.
ForeignKeyOK(row) ==
    \A c \in DOMAIN row :
        (MarriageLetterColumns[c].foreign_key # "" /\ row[c] # NULL)
            => row[c] \in Table(MarriageLetterColumns[c].foreign_key)

\* reference_number declared without unique=True.
UniqueOK_Undeclared(row, id) == TRUE

\* UNIQUE: no other row of marriage_letters holds the same value.
UniqueOK(row, id) ==
    \A c \in DOMAIN row :
        MarriageLetterColumns[c].unique
            => \A j \in DOMAIN marriage_letters \ {id} :
                   marriage_letters[j][c] # row[c]

ConstraintsOK(row, id) ==
    NotNullOK(row) /\ ForeignKeyOK(row) /\ UniqueOK(row, id)

\* The IntegrityError a statement may end with: one of the constraints the
\* row breaks (which one is reported first is the database's choice).
Violations(row, id) ==
    (IF NotNullOK(row) THEN {} ELSE {"NotNullViolation"})
        \cup (IF ForeignKeyOK(row) THEN {} ELSE {"ForeignKeyViolation"})
        \cup (IF UniqueOK(row, id) THEN {} ELSE {"UniqueViolation"})

\* What a client sees of an operation: the statement, whether it was
\* committed, and how many rows of marriage_letters it changed besides the
\* row it was aimed at.
Done(op, status, touched) == [op |-> op, status |-> status, touched |-> touched]

\* The letters a client asks to store.  Husband and reference number are
\* chosen freely, the wife is absent or the person after the husband, and
\* a letter of the first couple may carry one of the optional references.
LetterRow(h, w, ref) ==
    [c \in KeyColumns |->
        CASE c = "husband_id" -> h
          [] c = "wife_id" -> w
          [] c = "reference_number" -> ref
          [] OTHER -> NULL]

OptionalReferences == {c \in ForeignKeyColumns : Nullable(c)}

Spouse(h) == IF h = NULL THEN NULL ELSE (h % MaxPersons) + 1

LetterRows ==
    LET plain == {LetterRow(h, w, ref) : h \in {NULL} \cup PersonIds,
                                         w \in {NULL} \cup PersonIds,
                                         ref \in ReferenceNumbers}
        asked == {b \in plain : b.wife_id \in {NULL, Spouse(b.husband_id)}}
        first == LetterRow(1, Spouse(1), 1)
    IN  asked \cup
        UNION {{[first EXCEPT ![c] = v] :
                    v \in IdsOf(MarriageLetterColumns[c].foreign_key)} :
               c \in OptionalReferences}

\* session.add(row); session.commit() on one of the three referenced tables.
InsertRow(table) ==
    /\ table \in ParentTables
    /\ \E id \in IdsOf(table) \ Table(table) :
        /\ persons' = IF table = "persons" THEN persons \cup {id} ELSE persons
        /\ family_backgrounds' =
               IF table = "family_backgrounds"
               THEN family_backgrounds \cup {id} ELSE family_backgrounds
        /\ marriage_preferences' =
               IF table = "marriage_preferences"
               THEN marriage_preferences \cup {id} ELSE marriage_preferences
    /\ outcome' = Done("insert", "ok", 0)
    /\ UNCHANGED <<marriage_letters, formVars, objVars>>

\* session.add(MarriageLetter(...)); session.commit(): the row is stored
\* when it meets the constraints of its columns, else the statement fails
\* and the transaction is rolled back.
InsertLetter(row) ==
    /\ DOMAIN marriage_letters # LetterIds
    /\ LET id == CHOOSE i \in LetterIds \ DOMAIN marriage_letters :
                     \A j \in LetterIds \ DOMAIN marriage_letters : i <= j
       IN
        IF ConstraintsOK(row, id)
        THEN /\ marriage_letters' = (id :> row) @@ marriage_letters
             /\ outcome' = Done("insert", "ok", 0)
        ELSE /\ UNCHANGED marriage_letters
             /\ \E v \in Violations(row, id) : outcome' = Done("insert", v, 0)
    /\ UNCHANGED <<persons, family_backgrounds, marriage_preferences,
                   formVars, objVars>>

\* letter.reference_number = ref; session.commit().
UpdateLetter(id, ref) ==
    /\ id \in DOMAIN marriage_letters
    /\ LET row == [marriage_letters[id] EXCEPT !.reference_number = ref]
       IN  IF ConstraintsOK(row, id)
           THEN /\ marriage_letters' = [marriage_letters EXCEPT ![id] = row]
                /\ outcome' = Done("update", "ok", 0)
           ELSE /\ UNCHANGED marriage_letters
                /\ \E v \in Violations(row, id) :
                       outcome' = Done("update", v, 0)
    /\ UNCHANGED <<persons, family_backgrounds, marriage_preferences,
                   formVars, objVars>>

\* The letters a relationship of a referenced row collects: those whose
\* foreign_keys column holds the row's id.
Collection(rel, id) ==
    {l \in DOMAIN marriage_letters : marriage_letters[l][rel.foreign_keys] = id}

Remove(table, id) ==
    /\ persons' = IF table = "persons" THEN persons \ {id} ELSE persons
    /\ family_backgrounds' =
           IF table = "family_backgrounds"
           THEN family_backgrounds \ {id} ELSE family_backgrounds
    /\ marriage_preferences' =
           IF table = "marriage_preferences"
           THEN marriage_preferences \ {id} ELSE marriage_preferences

\* session.delete(obj); session.commit() on a referenced row.  None of its
\* relationships declares a cascade, so the unit of work de-associates the
\* letters of each collection by setting their foreign key to NULL before
\* it deletes the row; the UPDATE fails on a NOT NULL column.
Nullified(rels, id) ==
    [l \in DOMAIN marriage_letters |->
        [c \in KeyColumns |->
            IF \E r \in DOMAIN rels :
                   rels[r].foreign_keys = c /\ l \in Collection(rels[r], id)
            THEN NULL
            ELSE marriage_letters[l][c]]]

\* The relationships of the referenced tables declared with
\* cascade="all, delete": the letters of each collection go with the row.
SessionDelete_Cascade(table, id) ==
    /\ table \in ParentTables
    /\ id \in Table(table)
    /\ LET rels == RelationshipsOf(table)
           gone == UNION {Collection(rels[r], id) : r \in DOMAIN rels}
       IN  /\ marriage_letters' =
                  [l \in DOMAIN marriage_letters \ gone |-> marriage_letters[l]]
           /\ Remove(table, id)
           /\ outcome' = Done("delete", "ok", Cardinality(gone))
    /\ UNCHANGED <<formVars, objVars>>

SessionDelete(table, id) ==
    /\ table \in ParentTables
    /\ id \in Table(table)
    /\ LET after == Nullified(RelationshipsOf(table), id)
       IN  IF \A l \in DOMAIN after : NotNullOK(after[l])
           THEN /\ marriage_letters' = after
                /\ Remove(table, id)
                /\ outcome' = Done("delete", "ok",
                        Cardinality({l \in DOMAIN after :
                                        after[l] # marriage_letters[l]}))
           ELSE /\ UNCHANGED <<persons, family_backgrounds,
                               marriage_preferences, marriage_letters>>
                /\ outcome' = Done("delete", "NotNullViolation", 0)
    /\ UNCHANGED <<formVars, objVars>>

\* session.exec(delete(Model).where(Model.id == id)): a DELETE statement.
\* The foreign keys declare no ON DELETE action, so the statement fails
\* while a letter references the row.
Referenced(table, id) ==
    \E l \in DOMAIN marriage_letters, c \in ForeignKeyColumns :
        /\ MarriageLetterColumns[c].foreign_key = table
        /\ marriage_letters[l][c] = id

ExecDelete(table, id) ==
    /\ table \in ParentTables
    /\ id \in Table(table)
    /\ IF ~Referenced(table, id)
       THEN /\ Remove(table, id)
            /\ outcome' = Done("delete", "ok", 0)
       ELSE /\ UNCHANGED <<persons, family_backgrounds, marriage_preferences>>
            /\ outcome' = Done("delete", "ForeignKeyViolation", 0)
    /\ UNCHANGED <<marriage_letters, formVars, objVars>>

\* session.delete(letter); session.commit(): the letter is the many side of
\* each of its relationships, so only its own row goes.
DeleteLetter(id) ==
    /\ id \in DOMAIN marriage_letters
    /\ marriage_letters' =
           [l \in DOMAIN marriage_letters \ {id} |-> marriage_letters[l]]
    /\ outcome' = Done("delete", "ok", 0)
    /\ UNCHANGED <<persons, family_backgrounds, marriage_preferences,
                   formVars, objVars>>

-----------------------------------------------------------------------------
(* The table a Create schema is stored in, and the values handed to        *)
(* validation: for each schema a sample with every                         *)
(* field set to a valid value other than its default, the sample with      *)
(* fields left out, and the sample with one field changed.                 *)

TableOf ==
    [PersonCreate |-> PersonColumns,
     MarriagePreferencesCreate |-> MarriagePreferencesColumns,
     FamilyBackgroundCreate |-> FamilyBackgroundColumns]

Outsiders == {"married", "SINGLE", "N6", ""}

AllMembers == MaritalStatus \cup EducationLevel \cup Religion \cup LetterType

SampleMember(type) ==
    CASE type = "MaritalStatus" -> "divorced"
      [] type = "EducationLevel" -> "bachelor"
      [] type = "Religion" -> "islam"
      [] type = "LetterType" -> "N1"

RECURSIVE Sample(_)
Sample(schema) ==
    LET fields == FieldsOf(schema)
        value(info) ==
            CASE info.type = "str" -> Blank(1)
              [] info.type \in EnumTypes -> Lit(SampleMember(info.type))
              [] info.type = "List[str]" -> ListOf(<<Lit("single")>>)
              [] info.type = "Dict[str, Any]" -> DictOf({"witness"})
              [] info.type \in Schemas -> Obj(Sample(info.type))
              [] OTHER -> Val(info.type, 1, "", Empty)
    IN  [f \in DOMAIN fields |-> value(fields[f])]

Without(data, left_out) == [f \in DOMAIN data \ left_out |-> data[f]]

Lengths(info) ==
    IF info.max_length = Unlimited
    THEN {0, 1, 2000}
    ELSE {0, 1, info.max_length - 1, info.max_length, info.max_length + 1,
          2 * info.max_length}

\* The values tried in a field of a schema that nests no other schema.
Variants(info) ==
    {None} \cup
    CASE info.type = "str" -> {Blank(n) : n \in Lengths(info)} \cup {IntVal(1)}
      [] info.type \in EnumTypes ->
            {Lit(m) : m \in AllMembers \cup Outsiders} \cup {IntVal(1)}
      [] info.type = "List[str]" ->
            {ListOf(<<>>), ListOf(<<Lit("single"), Lit("married")>>),
             ListOf(<<IntVal(1)>>), Lit("single")}
                \cup {ListOf(<<Lit(m)>>) : m \in MaritalStatus \cup Outsiders}
      [] info.type = "Dict[str, Any]" -> {DictOf({}), DictOf({"a", "b"}), Lit("")}
      [] OTHER -> {Val(info.type, 2, "", Empty), Lit("x")}

Changed(schema) ==
    LET fields == FieldsOf(schema)
    IN  UNION {{[Sample(schema) EXCEPT ![f] = v] : v \in Variants(fields[f])} :
               f \in {g \in DOMAIN fields : fields[g].type \notin Schemas}}

\* The fields left out: one required field, or some of the fields that
\* have a default (of a schema stored as a row: at most two of them, or
\* all but at most one; of the other schemas: any of them).
LeftOut(schema) ==
    LET fields == FieldsOf(schema)
        free == {f \in DOMAIN fields : ~fields[f].required}
        few == {S \in SUBSET free :
                   Cardinality(S) <= 2 \/ Cardinality(free \ S) <= 1}
    IN  {Without(Sample(schema), S) :
            S \in IF schema \in DOMAIN TableOf THEN few ELSE SUBSET free}
            \cup {Without(Sample(schema), {f}) : f \in DOMAIN fields \ free}

\* A nested object with one of its fields changed or left out, or all of
\* its fields with a default left out.
Nested(schema) ==
    LET fields == FieldsOf(schema)
        free == {f \in DOMAIN fields : ~fields[f].required}
    IN  Changed(schema)
            \cup {Without(Sample(schema), {f}) : f \in DOMAIN fields}
            \cup {Without(Sample(schema), free)}

ChangedInside(schema) ==
    LET fields == FieldsOf(schema)
    IN  UNION {{[Sample(schema) EXCEPT ![f] = v] :
                    v \in {None, Lit("x")}
                            \cup {Obj(d) : d \in Nested(fields[f].type)}} :
               f \in {g \in DOMAIN fields : fields[g].type \in Schemas}}

Payloads(schema) ==
    Changed(schema) \cup LeftOut(schema) \cup ChangedInside(schema)

-----------------------------------------------------------------------------
(* Validation of a request, and the mapping of a validated Create value    *)
(* onto a row of its table and back.                                       *)

NoRequest == [schema |-> "", data |-> Empty]

Response(stage, value, row, back) ==
    [stage |-> stage, value |-> value, row |-> row, back |-> back]

NoResponse == Response("none", Empty, Empty, Empty)

\* Schema(**data): the object, or a ValidationError and no object.
Submit(schema, data) ==
    /\ response.stage = "none"
    /\ request' = [schema |-> schema, data |-> data]
    /\ response' = IF Valid(schema, data)
                   THEN Response("validated", Build(schema, data), Empty, Empty)
                   ELSE Response("rejected", Empty, Empty, Empty)
    /\ UNCHANGED <<dbVars, objVars>>

\* Model(**create.model_dump()) stored under a new id: each column takes
\* the value of the field of its name, and its own default (the id the
\* database assigns, the time of the insert) where there is none.
ToRow(columns, value, id) ==
    [c \in DOMAIN columns |->
        IF c \in DOMAIN value THEN value[c]
        ELSE IF columns[c].primary_key THEN IntVal(id)
        ELSE IF columns[c].default = UtcNow THEN Val("datetime", id, "", Empty)
        ELSE columns[c].default]

Store(id) ==
    /\ response.stage = "validated"
    /\ request.schema \in DOMAIN TableOf
    /\ response' = [response EXCEPT
                       !.stage = "stored",
                       !.row = ToRow(TableOf[request.schema], response.value, id)]
    /\ UNCHANGED <<request, dbVars, objVars>>

\* Create.model_validate(row): the fields of the schema read from the
\* columns of their name.
FromRow(schema, row) ==
    Build(schema, [f \in DOMAIN FieldsOf(schema) \cap DOMAIN row |-> row[f]])

Load ==
    /\ response.stage = "stored"
    /\ response' = [response EXCEPT
                       !.stage = "loaded",
                       !.back = FromRow(request.schema, response.row)]
    /\ UNCHANGED <<request, dbVars, objVars>>

\* The request is over; the next one starts afresh.
Close ==
    /\ response.stage # "none"
    /\ request' = NoRequest
    /\ response' = NoResponse
    /\ UNCHANGED <<dbVars, objVars>>

NextForm ==
    \/ \E schema \in Schemas : \E data \in Payloads(schema) : Submit(schema, data)
    \/ \E id \in PersonIds : Store(id)
    \/ Load
    \/ Close

-----------------------------------------------------------------------------
(* Construction of table instances.  A dict or list lives on the heap and  *)
(* a field holds its address; the dict given as the default of              *)
(* MarriageLetter.custom_fields and the list given as the default of       *)
(* MarriagePreferences.marital_status_acceptable are made once, when the   *)
(* class is defined.                                                       *)

ContainerTypes == {"Dict[str, Any]", "List[str]"}

ColumnsOf ==
    [MarriageLetter |-> MarriageLetterColumns,
     MarriagePreferences |-> MarriagePreferencesColumns]

ContainerField ==
    [MarriageLetter |-> "custom_fields",
     MarriagePreferences |-> "marital_status_acceptable"]

DefaultAddress == [MarriageLetter |-> 1, MarriagePreferences |-> 2]

ClassDefaults ==
    [a \in {DefaultAddress[c] : c \in DOMAIN DefaultAddress} |->
        LET c == CHOOSE d \in DOMAIN DefaultAddress : DefaultAddress[d] = a
        IN  DOMAIN ColumnsOf[c][ContainerField[c]].default.o]

Keys == {"a", "b"}

\* A default handed out as it is: every instance holds the one object.
GetDefault_Shared(h, address) == [at |-> address, heap |-> h]

\* The default of a container field is copied for each instance.
GetDefault(h, address) ==
    LET new == Cardinality(DOMAIN h) + 1
    IN  [at |-> new, heap |-> (new :> h[address]) @@ h]

\* The keyword arguments a caller may pass to MarriageLetter(...).
Given ==
    {Empty, [is_printed |-> Bool(TRUE)],
     [print_date |-> Val("datetime", 1, "", Empty)],
     [husband_marital_status |-> Lit("widowed")]}

\* Class(**given): a table model is not validated; each field takes the
\* argument given for it, else its default, and a required field that is
\* not given stays unset.
Construct(class, given) ==
    /\ Len(objects) < MaxObjects
    /\ DOMAIN given \subseteq DOMAIN ColumnsOf[class]
    /\ LET columns == ColumnsOf[class]
           plain == {c \in DOMAIN columns :
                        /\ ~columns[c].required
                        /\ columns[c].type \notin ContainerTypes
                        /\ columns[c].default # UtcNow}
           made == GetDefault(heap, DefaultAddress[class])
       IN  /\ heap' = made.heap
           /\ objects' = Append(objects,
                  [class |-> class,
                   given |-> DOMAIN given,
                   fields |-> [c \in plain |->
                                  IF c \in DOMAIN given THEN given[c]
                                  ELSE columns[c].default],
                   container |-> made.at,
                   added |-> {}])
    /\ UNCHANGED <<dbVars, formVars>>

\* obj.custom_fields[key] = ... / obj.marital_status_acceptable.append(key)
Add(i, key) ==
    /\ i \in DOMAIN objects
    /\ key \notin objects[i].added
    /\ heap' = [heap EXCEPT ![objects[i].container] = @ \cup {key}]
    /\ objects' = [objects EXCEPT ![i].added = @ \cup {key}]
    /\ UNCHANGED <<dbVars, formVars>>

NextObj ==
    \/ \E class \in DOMAIN ColumnsOf, given \in Given : Construct(class, given)
    \/ \E i \in 1..MaxObjects, key \in Keys : Add(i, key)

Idle == Done("none", "ok", 0)

InitDB ==
    /\ persons = {}
    /\ family_backgrounds = {}
    /\ marriage_preferences = {}
    /\ marriage_letters = Empty
    /\ outcome = Idle

InitForm ==
    /\ request = NoRequest
    /\ response = NoResponse

InitObj ==
    /\ heap = ClassDefaults
    /\ objects = <<>>

Init == InitDB /\ InitForm /\ InitObj

Next ==
    \/ \E table \in ParentTables : InsertRow(table)
    \/ \E row \in LetterRows : InsertLetter(row)
    \/ \E id \in LetterIds, ref \in ReferenceNumbers : UpdateLetter(id, ref)
    \/ \E table \in ParentTables, id \in PersonIds \cup FamilyIds \cup PreferenceIds :
           SessionDelete(table, id)
    \/ \E table \in ParentTables, id \in PersonIds \cup FamilyIds \cup PreferenceIds :
           ExecDelete(table, id)
    \/ \E id \in LetterIds : DeleteLetter(id)

Spec == Init /\ [][Next]_vars

SpecForm == Init /\ [][NextForm]_vars

SpecObj == Init /\ [][NextObj]_vars


-----------------------------------------------------------------------------
(* Claims about the tables.                                                *)

Tables == <<persons, family_backgrounds, marriage_preferences, marriage_letters>>

PersonReferences ==
    {"husband_id", "wife_id", "husband_father_id", "husband_mother_id",
     "wife_father_id", "wife_mother_id"}
FamilyReferences == {"husband_family_id", "wife_family_id"}
PreferencesReferences == {"husband_preferences_id", "wife_preferences_id"}

LetterReferencesHold(row) ==
    /\ row.husband_id # NULL
    /\ row.wife_id # NULL
    /\ \A c \in PersonReferences : row[c] # NULL => row[c] \in persons
    /\ \A c \in FamilyReferences : row[c] # NULL => row[c] \in family_backgrounds
    /\ \A c \in PreferencesReferences :
           row[c] # NULL => row[c] \in marriage_preferences

\* C1: every stored letter has a husband_id and a wife_id, and each of
\* its non-null references is the id of a row of persons,
\* family_backgrounds or marriage_preferences as the column says; an insert
\* that ends with an error leaves the four tables as they were.
C1_ReferentialIntegrity ==
    /\ [](\A l \in DOMAIN marriage_letters :
              LetterReferencesHold(marriage_letters[l]))
    /\ [][(outcome'.op = "insert" /\ outcome'.status # "ok")
              => Tables' = Tables]_vars

\* C1 witness: a letter is stored with one optional reference set and the
\* others null, and the insert of a letter naming a missing row has just
\* been rejected.
C1_Witness ==
    /\ outcome = Done("insert", "ForeignKeyViolation", 0)
    /\ \E l \in DOMAIN marriage_letters :
           /\ \E c \in OptionalReferences : marriage_letters[l][c] # NULL
           /\ \E c \in OptionalReferences : marriage_letters[l][c] = NULL

\* The reverse list each foreign key of marriage_letters feeds, as the
\* claim pairs them: <<table, list, column>>.
ReverseLists ==
    {<<"persons", "as_husband_letters", "husband_id">>,
     <<"persons", "as_wife_letters", "wife_id">>,
     <<"persons", "as_husband_father_letters", "husband_father_id">>,
     <<"persons", "as_husband_mother_letters", "husband_mother_id">>,
     <<"persons", "as_wife_father_letters", "wife_father_id">>,
     <<"persons", "as_wife_mother_letters", "wife_mother_id">>,
     <<"family_backgrounds", "husband_families", "husband_family_id">>,
     <<"family_backgrounds", "wife_families", "wife_family_id">>,
     <<"marriage_preferences", "husband_preferences", "husband_preferences_id">>,
     <<"marriage_preferences", "wife_preferences", "wife_preferences_id">>}

\* C2: the ten relationships of marriage_letters use ten distinct columns,
\* each agrees with the relationship it back-populates, and a letter is in
\* a reverse list of a row exactly when its column for that list holds the
\* row's id.
C2_ReverseListsMatchColumns ==
    /\ Cardinality({MarriageLetterRelationships[r].foreign_keys :
                       r \in DOMAIN MarriageLetterRelationships}) = 10
    /\ \A r \in DOMAIN MarriageLetterRelationships :
           LET fwd == MarriageLetterRelationships[r]
               back == RelationshipsOf(fwd.target)[fwd.back_populates]
           IN  /\ back.back_populates = r
               /\ back.foreign_keys = fwd.foreign_keys
               /\ MarriageLetterColumns[fwd.foreign_keys].foreign_key = fwd.target
    /\ \A t \in ReverseLists :
           /\ t[2] \in DOMAIN RelationshipsOf(t[1])
           /\ \A l \in DOMAIN marriage_letters, p \in Table(t[1]) :
                  l \in Collection(RelationshipsOf(t[1])[t[2]], p)
                      <=> marriage_letters[l][t[3]] = p

\* C2 witness: a stored letter whose husband is not its husband's father,
\* so the husband is in as_husband_letters and must stay out of
\* as_husband_father_letters, while another person is in that list.
C2_Witness ==
    \E l \in DOMAIN marriage_letters :
        /\ marriage_letters[l].husband_father_id # NULL
        /\ marriage_letters[l].husband_father_id # marriage_letters[l].husband_id
        /\ l \in Collection(PersonRelationships.as_husband_letters,
                            marriage_letters[l].husband_id)

ParentRows == <<persons, family_backgrounds, marriage_preferences>>

\* C8 as stated: a delete changes no table but the one it deletes from.
C8_DeleteTouchesOneTable ==
    [][outcome'.op = "delete"
          => \/ marriage_letters' = marriage_letters
             \/ ParentRows' = ParentRows]_vars

\* C8 amended: a delete removes at most one row, and of one table only.
\* Deleting a letter leaves the other three tables and the other letters as
\* they were.  Deleting a row of another table deletes no letter and
\* leaves husband_id and wife_id of every letter as they were; a letter
\* changes only in a nullable reference that named the deleted row, which
\* becomes null.
C8_DeleteNullifiesOnly ==
    [][outcome'.op = "delete"
          => /\ DOMAIN marriage_letters' \subseteq DOMAIN marriage_letters
             /\ persons' \subseteq persons
             /\ family_backgrounds' \subseteq family_backgrounds
             /\ marriage_preferences' \subseteq marriage_preferences
             /\ Cardinality(DOMAIN marriage_letters \ DOMAIN marriage_letters')
                  + Cardinality(persons \ persons')
                  + Cardinality(family_backgrounds \ family_backgrounds')
                  + Cardinality(marriage_preferences \ marriage_preferences')
                  <= 1
             /\ \A l \in DOMAIN marriage_letters' : \A c \in KeyColumns :
                    \/ marriage_letters'[l][c] = marriage_letters[l][c]
                    \/ /\ c \in OptionalReferences
                       /\ marriage_letters'[l][c] = NULL
                       /\ marriage_letters[l][c] \in
                              Table(MarriageLetterColumns[c].foreign_key)
                       /\ marriage_letters[l][c] \notin
                              Table(MarriageLetterColumns[c].foreign_key)']_vars

\* C8 witness: a delete of a referenced row went through and set the
\* reference of a stored letter to null.
C8_Witness ==
    /\ outcome.op = "delete"
    /\ outcome.status = "ok"
    /\ outcome.touched > 0
    /\ marriage_letters # Empty

\* C9: no two stored letters have the same reference_number, and an insert
\* or update that ends with an error leaves marriage_letters as it was.
C9_ReferenceNumberUnique ==
    /\ [](\A i, j \in DOMAIN marriage_letters :
              marriage_letters[i].reference_number
                  = marriage_letters[j].reference_number => i = j)
    /\ [][(outcome'.op \in {"insert", "update"} /\ outcome'.status # "ok")
              => marriage_letters' = marriage_letters]_vars

\* C9 witness: two letters are stored and an update that would give one
\* the reference_number of the other has just been rejected.
C9_Witness ==
    /\ outcome = Done("update", "UniqueViolation", 0)
    /\ Cardinality(DOMAIN marriage_letters) = 2

-----------------------------------------------------------------------------
(* Claims about validation.                                                *)

Asked == request.schema \in Schemas
Accepted == response.stage \in {"validated", "stored", "loaded"}
Rejected == response.stage = "rejected" /\ response.value = Empty

\* Some str of the data, nested or not, is longer than its max_length.
RECURSIVE TooLong(_, _)
TooLong(schema, data) ==
    LET fields == FieldsOf(schema)
    IN  \E f \in DOMAIN data \cap DOMAIN fields :
            \/ /\ fields[f].type = "str"
               /\ fields[f].max_length # Unlimited
               /\ data[f].k = "str"
               /\ data[f].n > fields[f].max_length
            \/ /\ fields[f].type \in Schemas
               /\ data[f].k = "object"
               /\ TooLong(fields[f].type, data[f].o)

\* The data is the sample but for strs, nested or not, of a length within
\* their max_length.
RECURSIVE SampleButLengths(_, _)
SampleButLengths(schema, data) ==
    LET fields == FieldsOf(schema)
    IN  /\ DOMAIN data = DOMAIN fields
        /\ \A f \in DOMAIN data :
               \/ data[f] = Sample(schema)[f]
               \/ /\ fields[f].type = "str"
                  /\ fields[f].max_length # Unlimited
                  /\ data[f].k = "str"
                  /\ data[f].n \in 0..fields[f].max_length
               \/ /\ fields[f].type \in Schemas
                  /\ data[f].k = "object"
                  /\ SampleButLengths(fields[f].type, data[f].o)

\* C3: a value with a str longer than the max_length of its field, in the
\* schema or in a schema nested in it, is rejected and no object is made;
\* a str of any length from 0 to max_length is accepted.
C3_MaxLengthEnforced ==
    Asked =>
        /\ TooLong(request.schema, request.data) => Rejected
        /\ SampleButLengths(request.schema, request.data) => Accepted

\* C3 witness: a MarriageLetterCreate whose husband_data carries a
\* phone_number of 21 characters has been rejected.
C3_Witness ==
    /\ request.schema = "MarriageLetterCreate"
    /\ Rejected
    /\ "husband_data" \in DOMAIN request.data
    /\ request.data.husband_data.k = "object"
    /\ "phone_number" \in DOMAIN request.data.husband_data.o
    /\ request.data.husband_data.o.phone_number = Blank(21)

RequiredLetterFields ==
    {"letter_type", "husband_data", "wife_data", "purpose", "contact_person",
     "contact_phone"}

RequiredPersonFields ==
    {"full_name", "date_of_birth", "place_of_birth", "nationality", "religion",
     "occupation", "education_level", "address", "phone_number"}

LetterDefaults ==
    [husband_father_data |-> None, husband_mother_data |-> None,
     husband_family_data |-> None, husband_preferences_data |-> None,
     wife_father_data |-> None, wife_mother_data |-> None,
     wife_family_data |-> None, wife_preferences_data |-> None,
     husband_marital_status |-> Lit("single"),
     wife_marital_status |-> Lit("single"),
     special_requests |-> Lit(""), contact_email |-> Lit(""),
     custom_fields |-> DictOf({})]

HasRequiredFields(data) ==
    /\ RequiredLetterFields \subseteq DOMAIN data
    /\ \A p \in {"husband_data", "wife_data"} :
           /\ data[p].k = "object"
           /\ RequiredPersonFields \subseteq DOMAIN data[p].o

\* The data is the sample of MarriageLetterCreate with fields left out.
SampleWithFieldsLeftOut(data) ==
    /\ DOMAIN data \subseteq DOMAIN Sample("MarriageLetterCreate")
    /\ \A f \in DOMAIN data :
           \/ data[f] = Sample("MarriageLetterCreate")[f]
           \/ /\ f \in {"husband_data", "wife_data"}
              /\ data[f].k = "object"
              /\ DOMAIN data[f].o \subseteq DOMAIN Sample("PersonCreate")
              /\ \A g \in DOMAIN data[f].o :
                     data[f].o[g] = Sample("PersonCreate")[g]

\* C4: a MarriageLetterCreate is accepted only with its six required
\* fields and the nine required fields of husband_data and of wife_data;
\* with those present, leaving out any other fields is accepted and each
\* field left out takes its default.
C4_RequiredFields ==
    request.schema = "MarriageLetterCreate" =>
        /\ Accepted => HasRequiredFields(request.data)
        /\ (SampleWithFieldsLeftOut(request.data) /\ HasRequiredFields(request.data))
               => /\ Accepted
                  /\ DOMAIN LetterDefaults
                         = DOMAIN Sample("MarriageLetterCreate") \ RequiredLetterFields
                  /\ \A f \in DOMAIN LetterDefaults \ DOMAIN request.data :
                         response.value[f] = LetterDefaults[f]

\* C4 witness: a MarriageLetterCreate with nothing but its six required
\* fields has been accepted.
C4_Witness ==
    /\ request.schema = "MarriageLetterCreate"
    /\ response.stage = "validated"
    /\ DOMAIN request.data = RequiredLetterFields

EnumOf ==
    [letter_type |-> "LetterType",
     religion |-> "Religion", preferred_religion |-> "Religion",
     education_level |-> "EducationLevel", preferred_education |-> "EducationLevel",
     husband_marital_status |-> "MaritalStatus",
     wife_marital_status |-> "MaritalStatus"]

\* The fields declared with an enum type are those the claim lists, and
\* the enums have the members it lists.
EnumFieldsAsListed ==
    /\ LetterType = {"N1", "N2", "N3", "N4", "N5"}
    /\ MaritalStatus = {"single", "divorced", "widowed"}
    /\ Cardinality(Religion) = 6
    /\ Cardinality(EducationLevel) = 7
    /\ \A schema \in Schemas : \A f \in DOMAIN FieldsOf(schema) :
           IF f \in DOMAIN EnumOf
           THEN FieldsOf(schema)[f].type = EnumOf[f]
           ELSE FieldsOf(schema)[f].type \notin EnumTypes

\* Every enum-typed field of the data, nested or not, holds a member of
\* its enum (or None).
RECURSIVE EnumsHold(_, _)
EnumsHold(schema, data) ==
    LET fields == FieldsOf(schema)
    IN  \A f \in DOMAIN data \cap DOMAIN fields :
            /\ (f \in DOMAIN EnumOf /\ data[f] # None)
                   => data[f].k = "str" /\ data[f].s \in EnumMembers(EnumOf[f])
            /\ (fields[f].type \in Schemas /\ data[f].k = "object")
                   => EnumsHold(fields[f].type, data[f].o)

\* Every element of a marital_status_acceptable of the data, nested or
\* not, is a member of MaritalStatus.
RECURSIVE StatusListsHold(_, _)
StatusListsHold(schema, data) ==
    LET fields == FieldsOf(schema)
    IN  \A f \in DOMAIN data \cap DOMAIN fields :
            /\ (f = "marital_status_acceptable" /\ data[f].k = "list")
                   => \A i \in DOMAIN data[f].o :
                          data[f].o[i].k = "str" /\ data[f].o[i].s \in MaritalStatus
            /\ (fields[f].type \in Schemas /\ data[f].k = "object")
                   => StatusListsHold(fields[f].type, data[f].o)

\* The data is the sample but for enum-typed fields, nested or not, that
\* hold a member of their enum, and marital_status_acceptable lists that
\* hold strs.
RECURSIVE SampleButEnums(_, _)
SampleButEnums(schema, data) ==
    LET fields == FieldsOf(schema)
    IN  /\ DOMAIN data = DOMAIN fields
        /\ \A f \in DOMAIN data :
               \/ data[f] = Sample(schema)[f]
               \/ /\ f \in DOMAIN EnumOf
                  /\ data[f].k = "str"
                  /\ data[f].s \in EnumMembers(EnumOf[f])
               \/ /\ f = "marital_status_acceptable"
                  /\ data[f].k = "list"
                  /\ \A i \in DOMAIN data[f].o : data[f].o[i].k = "str"
               \/ /\ fields[f].type \in Schemas
                  /\ data[f].k = "object"
                  /\ SampleButEnums(fields[f].type, data[f].o)

\* C5 as stated: an accepted value holds a member of the enum in every
\* enum-typed field and in every element of marital_status_acceptable.
C5_EnumsAndStatusLists ==
    (Asked /\ Accepted) =>
        /\ EnumsHold(request.schema, request.data)
        /\ StatusListsHold(request.schema, request.data)

\* C5 amended: on validation every enum-typed field accepts the members of
\* its enum (and None where it is Optional) and nothing else;
\* marital_status_acceptable is a list of str and accepts any strs.
C5_EnumFieldsExact ==
    /\ EnumFieldsAsListed
    /\ Asked =>
           /\ Accepted => EnumsHold(request.schema, request.data)
           /\ SampleButEnums(request.schema, request.data) => Accepted

\* C5 witness: a MarriagePreferencesCreate whose marital_status_acceptable
\* is ["married"] has been accepted.
C5_Witness ==
    /\ request.schema = "MarriagePreferencesCreate"
    /\ response.stage = "validated"
    /\ "marital_status_acceptable" \in DOMAIN request.data
    /\ request.data.marital_status_acceptable = ListOf(<<Lit("married")>>)

Described(info) ==
    <<info.type, info.optional, info.required, info.default, info.max_length>>

\* C6: PersonCreate, FamilyBackgroundCreate and MarriagePreferencesCreate
\* have the columns of their table other than id and created_at, each
\* declared as the column is; a validated Create value stored as a row
\* keeps every field in the column of its name, and read back is the value
\* that was stored.
C6_CreateMirrorsTable ==
    /\ \A schema \in DOMAIN TableOf :
           /\ DOMAIN FieldsOf(schema) = DOMAIN TableOf[schema] \ {"id", "created_at"}
           /\ \A f \in DOMAIN FieldsOf(schema) :
                  Described(FieldsOf(schema)[f]) = Described(TableOf[schema][f])
    /\ response.stage \in {"stored", "loaded"} =>
           \A f \in DOMAIN response.value : response.row[f] = response.value[f]
    /\ response.stage = "loaded" => response.back = response.value

\* C6 witness: the sample PersonCreate has been validated, stored and read
\* back.
C6_Witness ==
    /\ request.schema = "PersonCreate"
    /\ request.data = Sample("PersonCreate")
    /\ response.stage = "loaded"

DataFieldOf ==
    [husband_id |-> "husband_data",
     husband_father_id |-> "husband_father_data",
     husband_mother_id |-> "husband_mother_data",
     husband_family_id |-> "husband_family_data",
     husband_preferences_id |-> "husband_preferences_data",
     wife_id |-> "wife_data",
     wife_father_id |-> "wife_father_data",
     wife_mother_id |-> "wife_mother_data",
     wife_family_id |-> "wife_family_data",
     wife_preferences_id |-> "wife_preferences_data"]

ServerColumns == {"id", "is_printed", "print_date", "created_at", "updated_at"}

\* Column c of marriage_letters has its counterpart in MarriageLetterCreate.
Mirrored(c) ==
    LET column == MarriageLetterColumns[c]
        fields == MarriageLetterCreateFields
    IN  IF c \in DOMAIN DataFieldOf
        THEN /\ DataFieldOf[c] \in DOMAIN fields
             /\ fields[DataFieldOf[c]].type \in Schemas
             /\ fields[DataFieldOf[c]].required = ~column.optional
             /\ fields[DataFieldOf[c]].optional = column.optional
        ELSE /\ c \in DOMAIN fields
             /\ Described(fields[c]) = Described(column)

\* A validated MarriageLetterCreate gives column c a value.
Determined(c, value) ==
    IF c \in DOMAIN DataFieldOf
    THEN DataFieldOf[c] \in DOMAIN value /\ value[DataFieldOf[c]].k = "object"
    ELSE c \in DOMAIN value

LetterValidated ==
    request.schema = "MarriageLetterCreate" /\ response.stage = "validated"

\* C7 as stated: every column of marriage_letters but the five the server
\* fills has its counterpart, and a validated MarriageLetterCreate gives a
\* value to every column that has no default.
C7_EveryColumnMirrored ==
    LetterValidated =>
        /\ DOMAIN DataFieldOf = ForeignKeyColumns
        /\ \A c \in DOMAIN MarriageLetterColumns \ ServerColumns : Mirrored(c)
        /\ \A c \in DOMAIN MarriageLetterColumns :
               MarriageLetterColumns[c].required => Determined(c, response.value)

\* C7 amended: the same of every column but the five the server fills and
\* reference_number, which MarriageLetterCreate does not carry.
C7_ColumnsButReferenceNumberMirrored ==
    /\ DOMAIN DataFieldOf = ForeignKeyColumns
    /\ \A c \in DOMAIN MarriageLetterColumns
                    \ (ServerColumns \cup {"reference_number"}) : Mirrored(c)
    /\ "reference_number" \notin DOMAIN MarriageLetterCreateFields
    /\ LetterValidated =>
           \A c \in DOMAIN MarriageLetterColumns \ {"reference_number"} :
               MarriageLetterColumns[c].required => Determined(c, response.value)

\* C7 witness: the sample MarriageLetterCreate has been validated.
C7_Witness ==
    LetterValidated /\ request.data = Sample("MarriageLetterCreate")

-----------------------------------------------------------------------------
(* Claims about construction.                                              *)

\* What object i holds in its container field.
ContentsOf(i) == heap[objects[i].container]

\* C10: a MarriageLetter made without a print status has is_printed False
\* and print_date None, one made without a marital status has single in
\* both, and its custom_fields is empty; the container an instance got
\* from a default holds what was added to that instance and nothing else,
\* whatever was added to the other instances.
C10_DefaultsNotShared ==
    \A i \in DOMAIN objects :
        /\ ContentsOf(i) = objects[i].added
        /\ \A j \in DOMAIN objects :
               objects[i].container = objects[j].container => i = j
        /\ objects[i].class = "MarriageLetter" =>
               LET o == objects[i]
               IN  /\ "is_printed" \notin o.given => o.fields.is_printed = Bool(FALSE)
                   /\ "print_date" \notin o.given => o.fields.print_date = None
                   /\ "husband_marital_status" \notin o.given
                          => o.fields.husband_marital_status = Lit("single")
                   /\ o.fields.wife_marital_status = Lit("single")

\* C10 witness: of two letters made with defaults, one has had a key added
\* to its custom_fields and the other is still empty.
C10_Witness ==
    \E i, j \in DOMAIN objects :
        /\ objects[i].class = "MarriageLetter" /\ objects[i].given = {}
        /\ objects[j].class = "MarriageLetter" /\ objects[j].given = {}
        /\ objects[i].added # {}
        /\ objects[j].added = {} /\ ContentsOf(j) = {}

=============================================================================
